---- MODULE Spec2Model ----
(***************************************************************************)
(* Upload-to-publish orchestration of the dashboard front end.             *)
(*                                                                         *)
(*  Spec       the stage-wise publish handlers of useUploadHandlers        *)
(*             (handlePublish / handleDirectUpload) and the two selection  *)
(*             handlers of the settings step.                              *)
(*  SpecBatch  one useThumbnail hook running generateThumbnails batches.   *)
(*  SpecOps    the hook's saveThumbnail, uploadCustomThumbnail and          *)
(*             clearThumbnails without a batch.                            *)
(*  SpecHook   the same hook with saveThumbnail, uploadCustomThumbnail and *)
(*             clearThumbnails interleaved with the batch.                 *)
(*  SpecSession  the session guard of two tabs that share localStorage.    *)
(*  SpecDraft  save, load and clear calls on the local draft store.        *)
(*  SpecAio    the all-in-one page: handleFileUpload, the review form,     *)
(*             handleSave and its reset timer.                             *)
(***************************************************************************)
EXTENDS Integers, Sequences, FiniteSets, TLC

(***************************************************************************)
(* Bounds and program constants                                            *)
(***************************************************************************)
MaxPlaylists == 2
MaxContents == 2
MaxHookOps == 2
MaxBatches == 1
MaxSessions == 2
MaxDraftOps == 3
BatchSize == 5

Playlists == 1..MaxPlaylists
Contents == 1..MaxContents
NoPlaylist == 0
NoVideo == "noVideo"
VideoIds == {"v1", "v2"}
Privacies == {"public", "private", "unlisted"}
PublishTypes == Privacies \cup {"schedule"}

VARIABLES
  state,          \* UploadState held by the upload page (updateState merges into it)
  videoId,        \* previewData?.id || uploadedVideoData?.id || getCurrentVideoId()
  uploadDrafts,   \* the persisted upload draft of every video id
  pc,             \* position of the running handleDirectUpload
  calls,          \* remote calls issued by the current run, in order, with their status
  runStart,       \* the UploadState and drafts when the current run started
  publishType,    \* the type argument of the last handlePublish
  outcome,        \* how the last run ended
  navTimer,       \* the setTimeout(router.push('/dashboard'), 1500): none, pending, fired
  thumb,          \* ThumbnailState of the useThumbnail reducer
  req,            \* the five generateWithDelay promises of the running batch
  batch,          \* position of generateThumbnails: none, running, resolved, rejected
  returned,       \* thumbnails of the ThumbnailBatchResponse of the last resolved batch
  ops,            \* the saveThumbnail / uploadCustomThumbnail request in flight, the
                  \* generatedThumbnails the running uploadCustomThumbnail closed over,
                  \* the numbers of hook operations and of batches started so far, and
                  \* the last call or settlement of saveThumbnail, uploadCustomThumbnail
                  \* or clearThumbnails with its arguments and what it returned
  storage,        \* localStorage: auth_token, user_data, session_id, active_user_id
  tab,            \* per tab: the page shown, the user held in memory, the position of
                  \* the login dialog or of the conflict timer, the notice shown, the
                  \* pending storage event and the outcome of the last session check
  nextSid,        \* the number of session ids generated so far
  draftLog,       \* the save, load and clear calls made to the draft store
  aio,            \* the useState values of the all-in-one page
  section,        \* ThumbnailSection: currentStep, content.thumbnails and
                  \* content.selectedThumbnail of the UploadState it is given, its
                  \* isSaving flag, and the thumbnail and outcome of the last save
  aioRun          \* the all-in-one page's handlers: the position of handleFileUpload and
                  \* of handleSave, what the running handleSave closed over, the pending
                  \* reset timers, processedData, the remote calls issued, the last
                  \* toast and the error data of the last failed publish call

uploadVars == <<state, videoId, uploadDrafts, pc, calls, runStart, publishType, outcome, navTimer>>
thumbVars == <<thumb, req, batch, returned, ops>>
sessionVars == <<storage, tab, nextSid>>
aioVars == <<aio, aioRun>>
vars == <<state, videoId, uploadDrafts, pc, calls, runStart, publishType, outcome, navTimer,
          thumb, req, batch, returned, ops, storage, tab, nextSid, draftLog, aio, aioRun, section>>

\* The variables a component leaves alone.
outsideUpload == <<thumbVars, sessionVars, draftLog, aioVars, section>>
outsideThumb == <<uploadVars, sessionVars, draftLog, aioVars, section>>
outsideSession == <<uploadVars, thumbVars, draftLog, aioVars, section>>
outsideDrafts == <<thumbVars, sessionVars, aioVars, section>>
outsideAio == <<uploadVars, thumbVars, sessionVars, draftLog, section>>
outsideSection == <<uploadVars, sessionVars, draftLog, aioVars>>

(***************************************************************************)
(* useThumbnail: reducer state (thumbnailReducer.ts)                       *)
(***************************************************************************)
\* A slot of a JavaScript array that was never assigned.
Hole == 0
NoError == "null"
Indices == 0..(BatchSize - 1)

\* result.image_url of the request with the given index; the URL returned for
\* a custom upload.
ImageUrl(i) == i + 1

CustomUrl == BatchSize + 1

AllFlags(b) == [i \in Indices |-> b]

initialThumbnailState ==
  [isLoading |-> FALSE,
   error |-> NoError,
   generatedThumbnails |-> <<>>,
   thumbnailLoadingStates |-> AllFlags(FALSE)]

\* arr[i] of a possibly sparse array (0-based).
Slot(arr, i) == IF i < Len(arr) THEN arr[i + 1] ELSE Hole

\* next[index] = url on a copy of the array: the array grows to index + 1.
SetSlot(arr, i, url) ==
  [k \in 1..(IF Len(arr) > i + 1 THEN Len(arr) ELSE i + 1) |->
     IF k = i + 1 THEN url ELSE IF k <= Len(arr) THEN arr[k] ELSE Hole]

INIT_BATCH(s) ==
  [s EXCEPT !.isLoading = TRUE,
            !.error = NoError,
            !.generatedThumbnails = <<>>,
            !.thumbnailLoadingStates = AllFlags(TRUE)]

INIT_SINGLE(s) == [s EXCEPT !.isLoading = TRUE, !.error = NoError]

SET_ITEM_DONE(s, index) ==
  [s EXCEPT !.thumbnailLoadingStates =
     [i \in Indices |-> IF i = index THEN FALSE ELSE s.thumbnailLoadingStates[i]]]

\* A reducer case that appends instead of writing the slot of the index.
ADD_OR_SET_THUMBNAIL_push(s, index, url) ==
  [s EXCEPT !.generatedThumbnails = Append(s.generatedThumbnails, url)]

ADD_OR_SET_THUMBNAIL(s, index, url) ==
  [s EXCEPT !.generatedThumbnails = SetSlot(s.generatedThumbnails, index, url)]

\* A reducer case that keeps the incrementally filled list.
SUCCESS_BATCH_keep(s, thumbnails) ==
  [s EXCEPT !.isLoading = FALSE,
            !.thumbnailLoadingStates = AllFlags(FALSE)]

SUCCESS_BATCH(s, thumbnails) ==
  [s EXCEPT !.isLoading = FALSE,
            !.generatedThumbnails = thumbnails,
            !.thumbnailLoadingStates = AllFlags(FALSE)]

SUCCESS_SAVE(s) == [s EXCEPT !.isLoading = FALSE]

ERROR(s, payload) ==
  [s EXCEPT !.isLoading = FALSE,
            !.error = payload,
            !.thumbnailLoadingStates = AllFlags(FALSE)]

CLEAR(s) == initialThumbnailState

(***************************************************************************)
(* Local draft store (lib/storage/uploadDraft)                             *)
(***************************************************************************)
DraftKeys == {"thumbnailUrl", "step"}
DraftValues == {1, 2}

\* A key that a draft or a partial draft does not have.
Unset == 0

\* The partial drafts a save can be called with.
Partials == [DraftKeys -> DraftValues \cup {Unset}]

\* No draft is stored for the video: load returns null.
NoDraft == [present |-> FALSE, fields |-> [k \in DraftKeys |-> Unset]]

HasDraft(drafts, v) == v \in DOMAIN drafts /\ drafts[v].present

\* A save that replaces the stored draft by the partial one.
saveUploadDraft_replace(drafts, v, partial) ==
  [drafts EXCEPT ![v] = [present |-> TRUE, fields |-> partial]]

\* save(videoId, partialDraft): merge into the existing draft, per key.
saveUploadDraft(drafts, v, partial) ==
  [drafts EXCEPT ![v] =
     [present |-> TRUE,
      fields |-> [k \in DraftKeys |->
                    IF partial[k] # Unset THEN partial[k] ELSE drafts[v].fields[k]]]]

\* load(videoId): the draft, or null.
loadUploadDraft(drafts, v) == drafts[v]

\* The drafts persisted when the page is opened.
InitialDrafts ==
  [v \in VideoIds |->
     [present |-> TRUE,
      fields |-> [k \in DraftKeys |-> IF v = "v1" /\ k = "step" THEN Unset ELSE 1]]]

(***************************************************************************)
(* Stage-wise publish: state and helpers                                   *)
(***************************************************************************)
updateState(s, updates) ==
  [f \in DOMAIN s |-> IF f \in DOMAIN updates THEN updates[f] ELSE s[f]]

Call(api, id, body) == [api |-> api, id |-> id, body |-> body, status |-> "pending"]

Settle(cs, ok) ==
  [cs EXCEPT ![Len(cs)].status = IF ok THEN "ok" ELSE "failed"]

UploadInit ==
  /\ state \in [currentStep : {"preview"},
                isUploading : {FALSE},
                selectedPrivacy : {"public"},
                selectedPlaylist : {NoPlaylist},
                content : Contents]
  /\ videoId \in VideoIds \cup {NoVideo}
  /\ uploadDrafts = InitialDrafts
  /\ pc = "idle"
  /\ calls = <<>>
  /\ runStart = [state |-> state, drafts |-> uploadDrafts]
  /\ publishType = "public"
  /\ outcome = "none"
  /\ navTimer = "none"

\* A call of a hook operation with its arguments, or the settlement of its
\* request, and what the operation returned: "undefined" for a bare return,
\* "pending" while its request is awaited, "response" for return res.data,
\* "thrown" for the rethrow of the catch block.
Event(op, args, result) == [op |-> op, args |-> args, result |-> result]

ThumbInit ==
  /\ thumb = initialThumbnailState
  /\ req = [i \in Indices |-> "none"]
  /\ batch = "none"
  /\ returned = <<>>
  /\ ops = [save |-> FALSE, upload |-> FALSE, captured |-> <<>>, started |-> 0, batches |-> 0,
            last |-> Event("none", <<>>, "none")]

(***************************************************************************)
(* Session guard: the stored session and the tabs                          *)
(***************************************************************************)
Users == {"1", "2"}
Tabs == {"A", "B"}
NoUser == ""

\* localStorage.getItem of a key that is not stored.
Absent == <<>>

\* The stored strings: the token issued to a user, the JSON of a user
\* record, a string that is no JSON, session_<timestamp>_<rand>, a user id.
Token(u) == <<"token", u>>
UserJson(u) == <<"json", u>>
Garbage == <<"garbage">>
SessionId(n) == <<"session", n>>
UserId(u) == <<u>>

\* JSON.parse(user_data): the user record, or a thrown SyntaxError.
ParseUser(data) ==
  IF Len(data) = 2 /\ data[1] = "json" THEN [ok |-> TRUE, id |-> data[2]]
  ELSE [ok |-> FALSE, id |-> NoUser]

EmptyStorage ==
  [auth_token |-> Absent, user_data |-> Absent, session_id |-> Absent, active_user_id |-> Absent]

\* What a browser profile may hold when the app is opened.
StoredRecords ==
  [auth_token : {Absent} \cup {Token(u) : u \in Users},
   user_data : {Absent, Garbage} \cup {UserJson(u) : u \in Users},
   session_id : {Absent, SessionId(0)},
   active_user_id : {Absent} \cup {UserId(u) : u \in Users}]

closedTab ==
  [page |-> "closed", user |-> NoUser, pc |-> "idle", loginAs |-> NoUser, via |-> "none",
   notice |-> "none", event |-> FALSE, tick |-> 0, checked |-> "none", effects |-> <<>>]

\* No tab of the app is open and nothing is stored.
SessionClosed ==
  /\ storage = EmptyStorage
  /\ tab = [t \in Tabs |-> closedTab]
  /\ nextSid = 1

\* The app is opened on a browser profile with any stored record.
SessionInit ==
  /\ storage \in StoredRecords
  /\ tab = [t \in Tabs |-> closedTab]
  /\ nextSid = 1

(***************************************************************************)
(* All-in-one page: state (app/dashboard/all-in-one/page.tsx)              *)
(***************************************************************************)

NoFile == "noFile"
NoData == [present |-> FALSE]

\* The results of processAllInOne that the page reads: per part the success
\* flag and what was generated.
ProcessResults ==
  { [present |-> TRUE,
     titles |-> t, description |-> d, timestamps |-> ts, thumbnails |-> th] :
      t \in { [success |-> FALSE, generated_titles |-> <<>>],
              [success |-> TRUE, generated_titles |-> <<"t1", "t2">>] },
      d \in { [success |-> TRUE, generated_description |-> "d1"] },
      ts \in { [success |-> TRUE, generated_timestamps |-> <<"ts1">>] },
      th \in { [success |-> TRUE, generated_thumbnails |-> <<>>],
               [success |-> TRUE, generated_thumbnails |-> <<"img1">>] } }

\* The response data of a failed publish call: error.response?.data with the
\* optional code, message and details.  A message is its sequence of words.
NoErrorData == [present |-> FALSE]
ErrorData ==
  { NoErrorData } \cup
  { [present |-> TRUE, code |-> c, message |-> m, details |-> d] :
      c \in {"UPLOAD_005", "UPLOAD_001"},
      m \in { <<"upload", "failed">>, <<"thumbnail", "upload", "failed">> },
      d \in { [present |-> FALSE] } \cup
            { [present |-> TRUE, error_type |-> e, youtube_video_id |-> y] :
                e \in {"thumbnail_upload_failure"},
                y \in {"", "yt1"} } }

\* The useState initial values of the page.
initialForm ==
  [ step |-> "upload", uploadedFile |-> NoFile, currentVideoId |-> NoVideo,
    selectedTitle |-> "", selectedThumbnail |-> "", description |-> "",
    timestamps |-> <<>>, privacyStatus |-> "public", playlistName |-> "" ]

NoClosure == [videoId |-> NoVideo]

AioInit ==
  /\ aio = initialForm
  /\ aioRun = [ uploads |-> <<>>, save |-> "idle", closure |-> NoClosure,
                timers |-> 0, processedData |-> NoData, calls |-> <<>>,
                toast |-> "none", files |-> 0, saves |-> 0, edits |-> 0 ]

(***************************************************************************)
(* ThumbnailSection: state (components/upload/sections/ThumbnailSection)   *)
(***************************************************************************)

\* content.selectedThumbnail null; the URL.createObjectURL of a custom file;
\* a thumbnail the UploadState already holds when the section is shown.
NoThumbnail == 0
ObjectUrl == BatchSize + 2
StoredUrl == BatchSize + 3

NoSave == [url |-> NoThumbnail, ok |-> FALSE]

initialSection(thumbnails) ==
  [ currentStep |-> "thumbnail", thumbnails |-> thumbnails,
    selectedThumbnail |-> NoThumbnail, isSaving |-> FALSE,
    savingUrl |-> NoThumbnail, lastSave |-> NoSave ]

\* The section is not on screen.
SectionClosed == section = initialSection(<<>>)

Init == UploadInit /\ ThumbInit /\ SessionClosed /\ draftLog = <<>> /\ AioInit /\ SectionClosed

\* The hook on a page whose publish handlers are not running.
HookInit == Init /\ videoId = NoVideo /\ state.content = 1

(***************************************************************************)
(* Stage-wise publish: handlePublish / handleDirectUpload                  *)
(***************************************************************************)
NoPrivacy == "none"
NoBody == "empty"

\* The earlier handlePublish, which sent its own type argument.
privacyBody_type(type, s) == type

\* The privacy value handleDirectUpload sends: state.selectedPrivacy, not the
\* type argument of handlePublish.
privacyBody(type, s) == s.selectedPrivacy

\* The earlier catch block, which rethrew and blocked the upload.
privacyCatch_rethrow == "throw"

\* What the catch block around updatePrivacyStatus does: warn and continue.
privacyCatch == "warn"

\* What the catch block around selectPlaylist does: warn and continue.
playlistCatch == "warn"

\* Step 1 runs when a privacy is selected, step 2 when a playlist is selected.
privacyStep(s) == s.selectedPrivacy # NoPrivacy

playlistStep(s) == s.selectedPlaylist # NoPlaylist

\* A step 2 without the null check on selectedPlaylist.
NextStep_nocheck(after, s) ==
  IF after = "start" /\ privacyStep(s) THEN "privacy"
  ELSE IF after \in {"start", "privacy"} THEN "playlist"
  ELSE "publish"

\* The next remote call of the run after the step named `after` has settled.
NextStep(after, s) ==
  IF after = "start" /\ privacyStep(s) THEN "privacy"
  ELSE IF after \in {"start", "privacy"} /\ playlistStep(s) THEN "playlist"
  ELSE "publish"

Issue(step, s, v, type) ==
  CASE step = "privacy" -> Call("privacy-status", v, privacyBody(type, s))
    [] step = "playlist" -> Call("playlists-select", v, s.selectedPlaylist)
    [] step = "publish" -> Call("youtube-upload", v, NoBody)

\* updateState of the success path and of the outer catch block.
publishSuccessUpdates == [selectedPlaylist |-> NoPlaylist, isUploading |-> FALSE]

\* A catch block that resets the playlist as the success path does.
publishCatchUpdates_reset == [selectedPlaylist |-> NoPlaylist, isUploading |-> FALSE]

publishCatchUpdates == [isUploading |-> FALSE]

\* A clear that removes nothing.
clearUploadDraft_noop(drafts, v) == drafts

clearUploadDraft(drafts, v) ==
  [u \in DOMAIN drafts |-> IF u = v THEN NoDraft ELSE drafts[u]]

PageInteractive == pc = "idle" /\ navTimer = "none"

\* handlePrivacySelect / handlePlaylistSelect of the settings step.
handlePrivacySelect(p) ==
  /\ PageInteractive
  /\ state' = updateState(state, [selectedPrivacy |-> p])
  /\ UNCHANGED <<videoId, uploadDrafts, pc, calls, runStart, publishType, outcome, navTimer>>
  /\ UNCHANGED outsideUpload

handlePlaylistSelect(pl) ==
  /\ PageInteractive
  /\ state' = updateState(state, [selectedPlaylist |-> pl])
  /\ UNCHANGED <<videoId, uploadDrafts, pc, calls, runStart, publishType, outcome, navTimer>>
  /\ UNCHANGED outsideUpload

\* handlePublish("schedule"): alert and return, handleDirectUpload is not called.
PublishSchedule ==
  /\ PageInteractive
  /\ publishType' = "schedule"
  /\ outcome' = "scheduleAlert"
  /\ UNCHANGED <<state, videoId, uploadDrafts, pc, calls, runStart, navTimer>>
  /\ UNCHANGED outsideUpload

\* handlePublish(type) for a privacy type: handleDirectUpload is called and
\* shows window.confirm.
handlePublish(type) ==
  /\ PageInteractive
  /\ type # "schedule"
  /\ publishType' = type
  /\ pc' = "confirm"
  /\ outcome' = "asking"
  /\ calls' = <<>>
  /\ runStart' = [state |-> state, drafts |-> uploadDrafts]
  /\ UNCHANGED <<state, videoId, uploadDrafts, navTimer>>
  /\ UNCHANGED outsideUpload

\* A handler that sets isUploading before it looks at the answer.
DeclineConfirm_early ==
  /\ pc = "confirm"
  /\ pc' = "idle"
  /\ outcome' = "declined"
  /\ state' = updateState(state, [isUploading |-> TRUE])
  /\ UNCHANGED <<videoId, uploadDrafts, calls, runStart, publishType, navTimer>>
  /\ UNCHANGED outsideUpload

\* The user declines window.confirm: return.
DeclineConfirm ==
  /\ pc = "confirm"
  /\ pc' = "idle"
  /\ outcome' = "declined"
  /\ UNCHANGED <<state, videoId, uploadDrafts, calls, runStart, publishType, navTimer>>
  /\ UNCHANGED outsideUpload

\* Confirmed, but no video id is known: error toast and return.
MissingVideoId ==
  /\ pc = "confirm"
  /\ videoId = NoVideo
  /\ pc' = "idle"
  /\ outcome' = "noVideoId"
  /\ UNCHANGED <<state, videoId, uploadDrafts, calls, runStart, publishType, navTimer>>
  /\ UNCHANGED outsideUpload

\* Confirmed with a video id: isUploading is set and the run proceeds to its
\* first remote call.
StartUpload ==
  /\ pc = "confirm"
  /\ videoId # NoVideo
  /\ outcome' = "running"
  /\ state' = updateState(state, [isUploading |-> TRUE])
  /\ pc' = NextStep("start", state)
  /\ calls' = <<Issue(NextStep("start", state), state, videoId, publishType)>>
  /\ UNCHANGED <<videoId, uploadDrafts, runStart, publishType, navTimer>>
  /\ UNCHANGED outsideUpload

\* The outer catch block of handleDirectUpload.
UploadCatch ==
  /\ state' = updateState(state, publishCatchUpdates)
  /\ pc' = "idle"
  /\ outcome' = "failed"

\* The run goes on with the call after `after`.
Continue(after, cs) ==
  /\ pc' = NextStep(after, runStart.state)
  /\ calls' = Append(cs, Issue(NextStep(after, runStart.state), runStart.state, videoId, publishType))
  /\ UNCHANGED <<state, outcome>>

\* updatePrivacyStatus settles.
PrivacySettled(ok) ==
  /\ pc = "privacy"
  /\ IF ~ok /\ privacyCatch = "throw"
       THEN UploadCatch /\ calls' = Settle(calls, ok)
       ELSE Continue("privacy", Settle(calls, ok))
  /\ UNCHANGED <<videoId, uploadDrafts, runStart, publishType, navTimer>>
  /\ UNCHANGED outsideUpload

\* selectPlaylist settles.
PlaylistSettled(ok) ==
  /\ pc = "playlist"
  /\ IF ~ok /\ playlistCatch = "throw"
       THEN UploadCatch /\ calls' = Settle(calls, ok)
       ELSE Continue("playlist", Settle(calls, ok))
  /\ UNCHANGED <<videoId, uploadDrafts, runStart, publishType, navTimer>>
  /\ UNCHANGED outsideUpload

\* uploadToYouTube settles: on success the state is reset and the draft module
\* is imported; on failure the outer catch block runs.
PublishSettled(ok) ==
  /\ pc = "publish"
  /\ calls' = Settle(calls, ok)
  /\ IF ok
       THEN /\ state' = updateState(state, publishSuccessUpdates)
            /\ pc' = "import"
            /\ outcome' = "published"
       ELSE UploadCatch
  /\ UNCHANGED <<videoId, uploadDrafts, runStart, publishType, navTimer>>
  /\ UNCHANGED outsideUpload

\* try { await import(uploadDraft); clearUploadDraft(videoId) } catch {} and
\* then setTimeout(() => router.push('/dashboard'), 1500).
DraftCleanup(ok) ==
  /\ pc = "import"
  /\ uploadDrafts' = IF ok THEN clearUploadDraft(uploadDrafts, videoId) ELSE uploadDrafts
  /\ outcome' = IF ok THEN "cleared" ELSE "clearFailed"
  /\ navTimer' = "pending"
  /\ pc' = "idle"
  /\ UNCHANGED <<state, videoId, calls, runStart, publishType>>
  /\ UNCHANGED outsideUpload

\* The 1.5 s timer fires: router.push('/dashboard').
NavTimerFires ==
  /\ navTimer = "pending"
  /\ navTimer' = "fired"
  /\ UNCHANGED <<state, videoId, uploadDrafts, pc, calls, runStart, publishType, outcome>>
  /\ UNCHANGED outsideUpload

Next ==
  \/ \E p \in Privacies : handlePrivacySelect(p)
  \/ \E pl \in Playlists : handlePlaylistSelect(pl)
  \/ PublishSchedule
  \/ \E type \in Privacies : handlePublish(type)
  \/ DeclineConfirm
  \/ MissingVideoId
  \/ StartUpload
  \/ \E ok \in BOOLEAN : PrivacySettled(ok)
  \/ \E ok \in BOOLEAN : PlaylistSettled(ok)
  \/ \E ok \in BOOLEAN : PublishSettled(ok)
  \/ \E ok \in BOOLEAN : DraftCleanup(ok)
  \/ NavTimerFires

Spec == Init /\ [][Next]_vars

(***************************************************************************)
(* Properties of handleDirectUpload / handlePublish                        *)
(***************************************************************************)
ApiCount(api) == Cardinality({k \in 1..Len(calls) : calls[k].api = api})

Issued(api) == \E k \in 1..Len(calls) : calls[k].api = api

LastCall == calls[Len(calls)]

PublishOk == Len(calls) > 0 /\ LastCall.api = "youtube-upload" /\ LastCall.status = "ok"

PublishFailed == Len(calls) > 0 /\ LastCall.api = "youtube-upload" /\ LastCall.status = "failed"

RunEnded == outcome \in {"failed", "published", "cleared", "clearFailed"}

ApiRank(api) ==
  CASE api = "privacy-status" -> 1
    [] api = "playlists-select" -> 2
    [] api = "youtube-upload" -> 3

\* C2: the calls of a run are issued in the order privacy-status,
\* playlists-select, youtube-upload; a call is issued only when every earlier
\* call has settled; once the publish call is issued, a playlist-select call
\* was made if and only if a playlist was selected when the run started, and a
\* privacy-status call if and only if a privacy was selected.
C2_CallOrder ==
  /\ \A k \in 1..Len(calls) : k < Len(calls) => calls[k].status # "pending"
  /\ \A j, k \in 1..Len(calls) : j < k => ApiRank(calls[j].api) < ApiRank(calls[k].api)
  /\ Issued("youtube-upload") =>
       /\ Issued("playlists-select") <=> runStart.state.selectedPlaylist # NoPlaylist
       /\ Issued("privacy-status") <=> runStart.state.selectedPrivacy # NoPrivacy
  /\ pc \in {"idle", "confirm"} \/ pc = "import" \/ LastCall.status = "pending"

C2_Witness ==
  /\ Issued("youtube-upload")
  /\ Len(calls) = 2
  /\ calls[1].api = "privacy-status" /\ calls[1].body = "private"
  /\ runStart.state.selectedPlaylist = NoPlaylist

\* C3: the step in which the publish call fails leaves the page retryable:
\* the UploadState is the one the run started with (isUploading false, the
\* selections and the content unchanged), the drafts are untouched, no
\* navigation is scheduled, and handlePublish can be called again.
C3_PublishFailureRetryable ==
  [][(pc = "publish" /\ pc' = "idle") =>
        /\ state' = runStart.state
        /\ ~state'.isUploading
        /\ uploadDrafts' = runStart.drafts
        /\ navTimer' = "none"
        /\ PageInteractive']_vars

C3_Witness ==
  /\ outcome = "failed"
  /\ PublishFailed
  /\ state.selectedPlaylist # NoPlaylist
  /\ state.selectedPrivacy = "unlisted"
  /\ PageInteractive

C5_DeclineChangesNothing ==
  [][(pc = "confirm" /\ outcome' = "declined") =>
        /\ state' = state /\ state' = runStart.state
        /\ uploadDrafts' = uploadDrafts
        /\ navTimer' = navTimer
        /\ calls' = <<>>
        /\ pc' = "idle"]_vars

C5_Witness ==
  /\ outcome = "declined"
  /\ pc = "idle"
  /\ calls = <<>>
  /\ state.selectedPlaylist # NoPlaylist
  /\ state.selectedPrivacy = "private"

\* The calls a run issues, as a function of the selections and the video id
\* alone (the type argument of handlePublish does not occur).
ExpectedCalls(s, v) ==
  (IF s.selectedPrivacy # NoPrivacy THEN <<<<"privacy-status", v, s.selectedPrivacy>>>> ELSE <<>>)
  \o (IF s.selectedPlaylist # NoPlaylist THEN <<<<"playlists-select", v, s.selectedPlaylist>>>> ELSE <<>>)
  \o <<<<"youtube-upload", v, NoBody>>>>

\* C6: whatever type handlePublish was called with, the privacy-status call
\* carries the selectedPrivacy of the settings step, and the calls of the run
\* (endpoint, video id, body) are a prefix of a sequence that depends on the
\* selections only, so two runs that differ only in type issue the same calls.
C6_TypeIgnored ==
  /\ \A k \in 1..Len(calls) :
       calls[k].api = "privacy-status" => calls[k].body = runStart.state.selectedPrivacy
  /\ Len(calls) <= Len(ExpectedCalls(runStart.state, videoId))
  /\ \A k \in 1..Len(calls) :
       <<calls[k].api, calls[k].id, calls[k].body>> = ExpectedCalls(runStart.state, videoId)[k]

C6_Witness ==
  /\ Issued("privacy-status")
  /\ publishType = "public"
  /\ calls[1].body = "private"
  /\ PublishOk

(***************************************************************************)
(* useThumbnail: generateThumbnails (useThumbnail.ts)                      *)
(***************************************************************************)
Settled(r) == \A i \in Indices : r[i] \notin {"pending", "none"}

\* The image URLs of the fulfilled results that carry one, in index order
\* (results.filter with thumbnails.push).
RECURSIVE Extract(_, _)
Extract(r, i) ==
  IF i >= BatchSize THEN <<>>
  ELSE (IF r[i] = "url" THEN <<ImageUrl(i)>> ELSE <<>>) \o Extract(r, i + 1)

\* A batch that fails unless every request produced a thumbnail.
BatchFails_unlessAll(thumbnails) == Len(thumbnails) < BatchSize

\* thumbnails.length === 0 throws 'Failed to generate any thumbnails'.
BatchFails(thumbnails) == Len(thumbnails) = 0

\* The code after await Promise.allSettled(promises), with its catch block.
AfterAllSettled(s, r) ==
  IF BatchFails(Extract(r, 0))
    THEN [thumb |-> ERROR(s, "Failed to generate any thumbnails"),
          batch |-> "rejected",
          returned |-> <<>>]
    ELSE [thumb |-> SUCCESS_BATCH(s, Extract(r, 0)),
          batch |-> "resolved",
          returned |-> Extract(r, 0)]

\* The dispatches of generateWithDelay(index) when its request settles with
\* an image URL ("url"), without one ("nourl") or with a rejection.
ItemSettled(s, index, result) ==
  IF result = "url"
    THEN ADD_OR_SET_THUMBNAIL(SET_ITEM_DONE(s, index), index, ImageUrl(index))
    ELSE SET_ITEM_DONE(s, index)

\* generateThumbnails('') : ERROR and return undefined.
GenerateMissingVideoId ==
  /\ batch # "running"
  /\ ops.batches < MaxBatches
  /\ thumb' = ERROR(thumb, "Video ID is required")
  /\ batch' = "noVideoId"
  /\ req' = [i \in Indices |-> "none"]
  /\ returned' = <<>>
  /\ ops' = [ops EXCEPT !.batches = @ + 1]
  /\ UNCHANGED outsideThumb

\* generateThumbnails(videoId): INIT_BATCH and five staggered requests.
generateThumbnails ==
  /\ batch # "running"
  /\ ops.batches < MaxBatches
  /\ thumb' = INIT_BATCH(thumb)
  /\ batch' = "running"
  /\ req' = [i \in Indices |-> "pending"]
  /\ returned' = <<>>
  /\ ops' = [ops EXCEPT !.batches = @ + 1]
  /\ UNCHANGED outsideThumb

\* Request index settles; when it is the last one, Promise.allSettled
\* resolves and the rest of generateThumbnails runs in the same turn.
generateWithDelay(index, result) ==
  /\ batch = "running"
  /\ req[index] = "pending"
  /\ req' = [req EXCEPT ![index] = result]
  /\ IF Settled(req')
       THEN /\ thumb' = AfterAllSettled(ItemSettled(thumb, index, result), req').thumb
            /\ batch' = AfterAllSettled(ItemSettled(thumb, index, result), req').batch
            /\ returned' = AfterAllSettled(ItemSettled(thumb, index, result), req').returned
       ELSE /\ thumb' = ItemSettled(thumb, index, result)
            /\ UNCHANGED <<batch, returned>>
  /\ UNCHANGED ops
  /\ UNCHANGED outsideThumb

Results == {"url", "nourl", "rejected"}

NextBatch ==
  \/ GenerateMissingVideoId
  \/ generateThumbnails
  \/ \E index \in Indices, result \in Results : generateWithDelay(index, result)

SpecBatch == HookInit /\ [][NextBatch]_vars

(***************************************************************************)
(* useThumbnail: saveThumbnail, uploadCustomThumbnail, clearThumbnails     *)
(***************************************************************************)
\* Arguments of the hook operations.  A URL is the sequence of its parts, so
\* that the scheme check looks at its beginning.
HookVideoIds == {"", "v1"}
EmptyUrl == <<>>
ThumbnailUrls == {EmptyUrl, <<"blob:", "local">>, <<"http", "://img/1">>}
FileTypes == {"image/png", "video/mp4"}

\* thumbnailUrl.startsWith('http')
startsWithHttp(url) == Len(url) > 0 /\ url[1] = "http"

\* file.type.startsWith('image/')
isImage(type) == type = "image/png"

\* A validation without the scheme check.
saveValidation_noScheme(vid, url) ==
  IF vid = "" \/ url = EmptyUrl THEN "Video ID and thumbnail URL are required"
  ELSE "ok"

\* The validation of saveThumbnail: the message it rejects with, or "ok".
saveValidation(vid, url) ==
  IF vid = "" \/ url = EmptyUrl THEN "Video ID and thumbnail URL are required"
  ELSE IF ~startsWithHttp(url) THEN "Invalid thumbnail URL format"
  ELSE "ok"

\* saveThumbnail with arguments that fail validation: ERROR, no request.
SaveThumbnailInvalid(vid, url) ==
  /\ saveValidation(vid, url) # "ok"
  /\ ops.started < MaxHookOps
  /\ thumb' = ERROR(thumb, saveValidation(vid, url))
  /\ ops' = [ops EXCEPT !.started = @ + 1,
                        !.last = Event("saveThumbnail", <<vid, url>>, "undefined")]
  /\ UNCHANGED <<req, batch, returned>>
  /\ UNCHANGED outsideThumb

\* saveThumbnail with valid arguments: INIT_SINGLE and the save request.
saveThumbnail(vid, url) ==
  /\ saveValidation(vid, url) = "ok"
  /\ ~ops.save
  /\ ops.started < MaxHookOps
  /\ thumb' = INIT_SINGLE(thumb)
  /\ ops' = [ops EXCEPT !.save = TRUE,
                        !.started = @ + 1,
                        !.last = Event("saveThumbnail", <<vid, url>>, "pending")]
  /\ UNCHANGED <<req, batch, returned>>
  /\ UNCHANGED outsideThumb

\* The save request settles: a success response dispatches nothing, anything
\* else dispatches ERROR and rethrows.
SaveSettled(ok) ==
  /\ ops.save
  /\ ops' = [ops EXCEPT !.save = FALSE,
                        !.last = Event("saveSettled", <<>>, IF ok THEN "response" ELSE "thrown")]
  /\ thumb' = IF ok THEN thumb ELSE ERROR(thumb, "Failed to save thumbnail")
  /\ UNCHANGED <<req, batch, returned>>
  /\ UNCHANGED outsideThumb

\* uploadCustomThumbnail with a missing video id or a file that is no image.
UploadCustomInvalid(vid, type) ==
  /\ vid = "" \/ ~isImage(type)
  /\ ops.started < MaxHookOps
  /\ thumb' = ERROR(thumb, IF vid = "" THEN "Video ID and file are required"
                           ELSE "Please select a valid image file")
  /\ ops' = [ops EXCEPT !.started = @ + 1,
                        !.last = Event("uploadCustomThumbnail", <<vid, type>>, "undefined")]
  /\ UNCHANGED <<req, batch, returned>>
  /\ UNCHANGED outsideThumb

\* uploadCustomThumbnail with valid arguments: INIT_SINGLE and the upload
\* request.  The callback does not list state among its dependencies: the
\* generatedThumbnails it reads later are those of the render that created
\* it, the first render or the one current at the call.
uploadCustomThumbnail(vid, type, stale) ==
  /\ vid # "" /\ isImage(type)
  /\ ~ops.upload
  /\ ops.started < MaxHookOps
  /\ thumb' = INIT_SINGLE(thumb)
  /\ ops' = [ops EXCEPT !.upload = TRUE,
                        !.started = @ + 1,
                        !.last = Event("uploadCustomThumbnail", <<vid, type>>, "pending"),
                        !.captured = IF stale THEN initialThumbnailState.generatedThumbnails
                                     ELSE thumb.generatedThumbnails]
  /\ UNCHANGED <<req, batch, returned>>
  /\ UNCHANGED outsideThumb

\* The upload request settles: with a thumbnail_path ("path"), without one
\* ("nopath") or with an error.
UploadCustomSettled(result) ==
  /\ ops.upload
  /\ ops' = [ops EXCEPT !.upload = FALSE,
                        !.captured = <<>>,
                        !.last = Event("uploadSettled", <<result>>,
                                       IF result = "error" THEN "thrown" ELSE "response")]
  /\ thumb' = CASE result = "path" -> SUCCESS_BATCH(thumb, Append(ops.captured, CustomUrl))
                [] result = "nopath" -> thumb
                [] result = "error" -> ERROR(thumb, "Failed to upload custom thumbnail")
  /\ UNCHANGED <<req, batch, returned>>
  /\ UNCHANGED outsideThumb

clearThumbnails ==
  /\ ops.started < MaxHookOps
  /\ thumb' = CLEAR(thumb)
  /\ ops' = [ops EXCEPT !.started = @ + 1,
                        !.last = Event("clearThumbnails", <<>>, "undefined")]
  /\ UNCHANGED <<req, batch, returned>>
  /\ UNCHANGED outsideThumb

\* The operations of the hook other than the batch.
NextOps ==
  \/ \E vid \in HookVideoIds, url \in ThumbnailUrls : SaveThumbnailInvalid(vid, url)
  \/ \E vid \in HookVideoIds, url \in ThumbnailUrls : saveThumbnail(vid, url)
  \/ \E ok \in BOOLEAN : SaveSettled(ok)
  \/ \E vid \in HookVideoIds, type \in FileTypes : UploadCustomInvalid(vid, type)
  \/ \E vid \in HookVideoIds, type \in FileTypes, stale \in BOOLEAN : uploadCustomThumbnail(vid, type, stale)
  \/ \E result \in {"path", "nopath", "error"} : UploadCustomSettled(result)
  \/ clearThumbnails

\* The hook when no batch is running: before the first batch, or after a
\* batch in which the first one or two requests produced a thumbnail.
OpsInit ==
  /\ UploadInit /\ videoId = NoVideo /\ state.content = 1
  /\ SessionClosed
  /\ draftLog = <<>> /\ AioInit /\ SectionClosed
  /\ ops = [save |-> FALSE, upload |-> FALSE, captured |-> <<>>, started |-> 0, batches |-> 0,
            last |-> Event("none", <<>>, "none")]
  /\ \/ ThumbInit
     \/ \E n \in 1..2 :
          /\ req = [i \in Indices |-> IF i < n THEN "url" ELSE "rejected"]
          /\ thumb = AfterAllSettled(initialThumbnailState, req).thumb
          /\ batch = AfterAllSettled(initialThumbnailState, req).batch
          /\ returned = AfterAllSettled(initialThumbnailState, req).returned

SpecOps == OpsInit /\ [][NextOps]_vars

NextHook == NextBatch \/ NextOps

SpecHook == HookInit /\ [][NextHook]_vars

(***************************************************************************)
(* Properties of generateThumbnails                                        *)
(***************************************************************************)
WithUrl == {i \in Indices : req[i] = "url"}

\* The number of requests below index i that did not produce an image URL.
FailedBelow(i) == Cardinality({j \in Indices : j < i /\ req[j] # "url"})

BatchFinished == batch \in {"resolved", "rejected"}

\* C7: when a batch of five requests has finished, the length of
\* generatedThumbnails is the number of requests that resolved with an image
\* URL, for every combination of successes and failures.
C7_LengthIsSuccessCount ==
  BatchFinished => Len(thumb.generatedThumbnails) = Cardinality(WithUrl)

C7_Witness ==
  /\ batch = "resolved"
  /\ req[0] = "rejected" /\ req[1] = "url" /\ req[2] = "nourl" /\ req[4] = "url"
  /\ Len(thumb.generatedThumbnails) = Cardinality(WithUrl)

\* C8: generateThumbnails resolves (success: true) exactly when at least one
\* of its five requests resolved with an image URL and rejects exactly when
\* none did; after a rejection state.error is set, isLoading is false and
\* generatedThumbnails is empty; after a success the response and the state
\* hold exactly the thumbnails of the successful requests.
C8_BatchSuccessIffOne ==
  /\ batch = "resolved" <=> (Settled(req) /\ WithUrl # {})
  /\ batch = "rejected" <=> (Settled(req) /\ WithUrl = {})
  /\ batch = "rejected" =>
       /\ thumb.error # NoError
       /\ ~thumb.isLoading
       /\ thumb.generatedThumbnails = <<>>
  /\ batch = "resolved" =>
       /\ Len(returned) = Cardinality(WithUrl)
       /\ \A i \in Indices : i \in WithUrl <=> (\E k \in 1..Len(returned) : returned[k] = ImageUrl(i))
       /\ thumb.generatedThumbnails = returned
       /\ ~thumb.isLoading

C8_Witness ==
  /\ batch = "rejected"
  /\ req[0] = "nourl" /\ req[1] = "rejected"
  /\ thumb.error = "Failed to generate any thumbnails"

\* C9 as stated: in every state during and after a batch, the slot of every
\* index whose request resolved with an image URL holds that URL.
C9_Original ==
  \A i \in WithUrl : Slot(thumb.generatedThumbnails, i) = ImageUrl(i)

\* C9 amended: while the batch is running, the slot of every index whose
\* request resolved with an image URL holds that URL, whatever the order of
\* settlement; when the batch has resolved the list is compacted, and the URL
\* of request i is in slot i minus the number of requests below i that
\* produced no URL.
C9_SlotCorrespondence ==
  /\ batch = "running" =>
       \A i \in WithUrl : Slot(thumb.generatedThumbnails, i) = ImageUrl(i)
  /\ batch = "resolved" =>
       \A i \in WithUrl : Slot(thumb.generatedThumbnails, i - FailedBelow(i)) = ImageUrl(i)

C9_Witness ==
  /\ batch = "running"
  /\ req[0] = "pending" /\ req[1] = "rejected" /\ req[3] = "url" /\ req[4] = "pending"
  /\ Slot(thumb.generatedThumbnails, 3) = ImageUrl(3)
  /\ Slot(thumb.generatedThumbnails, 0) = Hole

\* C10 as stated: during a batch, thumbnailLoadingStates[i] is true exactly
\* while request i has not settled, whatever else the hook is doing.
C10_Original ==
  batch = "running" =>
    \A i \in Indices : thumb.thumbnailLoadingStates[i] <=> (req[i] = "pending")

(***************************************************************************)
(* Properties of saveThumbnail and uploadCustomThumbnail                   *)
(***************************************************************************)
\* The step is a call of saveThumbnail.
SaveCalled == ops'.started = ops.started + 1 /\ ops'.last.op = "saveThumbnail"

\* The step sends a request to /thumbnail-generator/{videoId}/save.
SaveRequestSent == ~ops.save /\ ops'.save

SaveValidationMessages ==
  {"Video ID and thumbnail URL are required", "Invalid thumbnail URL format"}

\* C11: a call of saveThumbnail with an empty video id, an empty thumbnail
\* URL or a URL that does not begin with 'http' sends no request, sets
\* state.error to a validation message and returns undefined; a save request
\* is sent only by a call of saveThumbnail whose video id and URL are
\* non-empty and whose URL begins with 'http', and such a call sends it.
C11_SaveValidation ==
  [][/\ SaveCalled =>
          IF \/ ops'.last.args[1] = ""
             \/ Len(ops'.last.args[2]) = 0
             \/ ops'.last.args[2][1] # "http"
            THEN /\ ~SaveRequestSent
                 /\ ops'.save = ops.save
                 /\ thumb'.error \in SaveValidationMessages
                 /\ ~thumb'.isLoading
                 /\ ops'.last.result = "undefined"
            ELSE /\ SaveRequestSent
                 /\ ops'.last.result = "pending"
     /\ SaveRequestSent =>
          /\ SaveCalled
          /\ ops'.last.args[1] # ""
          /\ Len(ops'.last.args[2]) > 0
          /\ ops'.last.args[2][1] = "http"]_vars

C11_Witness ==
  /\ ops.last.op = "saveThumbnail"
  /\ ops.last.args[1] = "v1"
  /\ ops.last.args[2] = <<"blob:", "local">>
  /\ ops.last.result = "undefined"
  /\ thumb.error = "Invalid thumbnail URL format"
  /\ ops.save

\* C12 as stated: the step in which uploadCustomThumbnail handles a response
\* with a thumbnail_path leaves in generatedThumbnails everything it held
\* just before, in the same order, followed by the URL of the upload.
C12_Original ==
  [][(ops.upload /\ ops'.last.op = "uploadSettled" /\ ops'.last.args[1] = "path") =>
        thumb'.generatedThumbnails = Append(thumb.generatedThumbnails, CustomUrl)]_vars

(***************************************************************************)
(* Session guard: validation, login, monitor                               *)
(***************************************************************************)
\* A validation that does not compare the ids.
validateSession_noMatch(st) ==
  /\ st.auth_token # Absent
  /\ st.user_data # Absent
  /\ st.session_id # Absent
  /\ st.active_user_id # Absent
  /\ ParseUser(st.user_data).ok

\* validateSession(): all four keys exist, user_data is valid JSON and
\* user_data.id === active_user_id.
validateSession(st) ==
  /\ st.auth_token # Absent
  /\ st.user_data # Absent
  /\ st.session_id # Absent
  /\ st.active_user_id # Absent
  /\ ParseUser(st.user_data).ok
  /\ UserId(ParseUser(st.user_data).id) = st.active_user_id

\* A generator that hands out the same id again.
generateSessionId_reuse(n) == SessionId(0)

\* session_<timestamp>_<rand>: the n-th id generated.
generateSessionId(n) == SessionId(n)

\* The four keys saved by a login of user u.
NewSession(u, n) ==
  [auth_token |-> Token(u),
   user_data |-> UserJson(u),
   session_id |-> generateSessionId(n),
   active_user_id |-> UserId(u)]

\* A logout that leaves the token behind.
clearSession_keepToken(st) == [EmptyStorage EXCEPT !.auth_token = st.auth_token]

\* Remove session_id, active_user_id, auth_token and user_data.
clearSession(st) == EmptyStorage

\* The storage listener reacts to changes of session_id and active_user_id.
SessionKeysChanged(old, new) ==
  old.session_id # new.session_id \/ old.active_user_id # new.active_user_id

\* The storage event of a write of tab t, queued in the other tabs whose
\* monitor is running.
Deliver(tb, t, old, new) ==
  [s \in Tabs |->
     IF s # t /\ tb[s].page = "dashboard" /\ SessionKeysChanged(old, new)
       THEN [tb[s] EXCEPT !.event = TRUE]
       ELSE tb[s]]

\* The tab after a logout: on the login page, monitor stopped.
LoggedOut(r, notice, effects) ==
  [r EXCEPT !.page = "login", !.user = NoUser, !.pc = "idle", !.event = FALSE,
            !.notice = notice, !.effects = effects]

\* The tab after a login of user u: on the dashboard, monitor started.
LoggedIn(r, u) ==
  [r EXCEPT !.page = "dashboard", !.user = u, !.pc = "idle", !.loginAs = NoUser,
            !.notice = "none", !.effects = <<>>]

\* Checkpoint 1: the app is opened; the session is validated and an invalid
\* one is logged out at once.
OpenApp(t) ==
  /\ tab[t].page = "closed"
  /\ IF validateSession(storage)
       THEN /\ storage' = storage
            /\ tab' = [tab EXCEPT ![t] =
                         [@ EXCEPT !.page = "dashboard",
                                   !.user = ParseUser(storage.user_data).id,
                                   !.tick = 1 - @,
                                   !.checked = "valid"]]
       ELSE /\ storage' = clearSession(storage)
            /\ tab' = Deliver([tab EXCEPT ![t] =
                                 [LoggedOut(@, "none", <<"clear", "redirect">>)
                                    EXCEPT !.tick = 1 - @, !.checked = "invalid"]],
                              t, storage, storage')
  /\ UNCHANGED nextSid
  /\ UNCHANGED outsideSession

\* The user of a logged-in tab navigates to the login page.
NavigateToLogin(t) ==
  /\ tab[t].page = "dashboard"
  /\ tab[t].pc = "idle"
  /\ tab' = [tab EXCEPT ![t] = [@ EXCEPT !.page = "login", !.event = FALSE]]
  /\ UNCHANGED <<storage, nextSid>>
  /\ UNCHANGED outsideSession

\* The identity of localStorage.user_data differs from the one logging in.
DifferentUser(st, u) == ParseUser(st.user_data).ok /\ ParseUser(st.user_data).id # u

\* Checkpoint 2: the login form is submitted for user u.  A different stored
\* user brings up the warning dialog; otherwise the session is saved.
SubmitLogin(t, u) ==
  /\ tab[t].page = "login"
  /\ tab[t].pc = "idle"
  /\ nextSid <= MaxSessions
  /\ IF DifferentUser(storage, u)
       THEN /\ tab' = [tab EXCEPT ![t] = [@ EXCEPT !.pc = "dialog", !.loginAs = u, !.via = "form"]]
            /\ UNCHANGED <<storage, nextSid>>
       ELSE /\ storage' = NewSession(u, nextSid)
            /\ nextSid' = nextSid + 1
            /\ tab' = Deliver([tab EXCEPT ![t] = [LoggedIn(@, u) EXCEPT !.via = "form"]],
                              t, storage, storage')
  /\ UNCHANGED outsideSession

\* Checkpoints 3 and 4: a token arrives via URL parameters or the Google
\* callback completes: the old session is cleared and a new one created.
TokenLogin(t, u, via) ==
  /\ tab[t].page = "login"
  /\ tab[t].pc = "idle"
  /\ nextSid <= MaxSessions
  /\ storage' = NewSession(u, nextSid)
  /\ nextSid' = nextSid + 1
  /\ tab' = Deliver([tab EXCEPT ![t] = [LoggedIn(@, u) EXCEPT !.via = via]],
                    t, storage, storage')
  /\ UNCHANGED outsideSession

\* Cancel in the warning dialog: login cancelled, the session remains.
CancelSwitch(t) ==
  /\ tab[t].pc = "dialog"
  /\ tab' = [tab EXCEPT ![t] = [@ EXCEPT !.pc = "idle", !.loginAs = NoUser]]
  /\ UNCHANGED <<storage, nextSid>>
  /\ UNCHANGED outsideSession

\* Yes, Switch Account: the old session is cleared.
ConfirmSwitch(t) ==
  /\ tab[t].pc = "dialog"
  /\ storage' = clearSession(storage)
  /\ tab' = Deliver([tab EXCEPT ![t] = [@ EXCEPT !.pc = "switching"]], t, storage, storage')
  /\ UNCHANGED nextSid
  /\ UNCHANGED outsideSession

\* A new session id is generated and the data of the new user saved.
StoreSession(t) ==
  /\ tab[t].pc = "switching"
  /\ storage' = NewSession(tab[t].loginAs, nextSid)
  /\ nextSid' = nextSid + 1
  /\ tab' = Deliver([tab EXCEPT ![t] = LoggedIn(@, tab[t].loginAs)], t, storage, storage')
  /\ UNCHANGED outsideSession

\* Checkpoint 5: the 5-second interval of the SessionMonitor.
PeriodicCheck(t) ==
  /\ tab[t].page = "dashboard"
  /\ IF validateSession(storage)
       THEN /\ storage' = storage
            /\ tab' = [tab EXCEPT ![t] = [@ EXCEPT !.tick = 1 - @, !.checked = "valid"]]
       ELSE /\ storage' = clearSession(storage)
            /\ tab' = Deliver([tab EXCEPT ![t] =
                                 [LoggedOut(@, "Session Expired", <<"notice", "clear", "redirect">>)
                                    EXCEPT !.tick = 1 - @, !.checked = "invalid"]],
                              t, storage, storage')
  /\ UNCHANGED nextSid
  /\ UNCHANGED outsideSession

\* Checkpoint 6: the storage listener compares localStorage.active_user_id
\* with the id of the current user of the tab; on a mismatch it shows the
\* notification and starts the 1.5 s wait.
StorageEvent(t) ==
  /\ tab[t].page = "dashboard"
  /\ tab[t].event
  /\ tab' = [tab EXCEPT ![t] =
               IF storage.active_user_id # UserId(tab[t].user)
                 THEN [@ EXCEPT !.event = FALSE,
                                !.pc = "conflict",
                                !.notice = "Session Conflict Detected",
                                !.effects = <<"notice">>]
                 ELSE [@ EXCEPT !.event = FALSE]]
  /\ UNCHANGED <<storage, nextSid>>
  /\ UNCHANGED outsideSession

\* The 1.5 s have passed: force logout.
ConflictTimer(t) ==
  /\ tab[t].pc = "conflict"
  /\ storage' = clearSession(storage)
  /\ tab' = Deliver([tab EXCEPT ![t] =
                       LoggedOut(@, tab[t].notice, Append(Append(tab[t].effects, "clear"), "redirect"))],
                    t, storage, storage')
  /\ UNCHANGED nextSid
  /\ UNCHANGED outsideSession

\* Checkpoint 7: the logout button.
Logout(t) ==
  /\ tab[t].page = "dashboard"
  /\ tab[t].pc = "idle"
  /\ storage' = clearSession(storage)
  /\ tab' = Deliver([tab EXCEPT ![t] = LoggedOut(@, "none", <<>>)], t, storage, storage')
  /\ UNCHANGED nextSid
  /\ UNCHANGED outsideSession

NextSession ==
  \/ \E t \in Tabs : OpenApp(t)
  \/ \E t \in Tabs : NavigateToLogin(t)
  \/ \E t \in Tabs, u \in Users : SubmitLogin(t, u)
  \/ \E t \in Tabs, u \in Users, via \in {"url", "google"} : TokenLogin(t, u, via)
  \/ \E t \in Tabs : CancelSwitch(t)
  \/ \E t \in Tabs : ConfirmSwitch(t)
  \/ \E t \in Tabs : StoreSession(t)
  \/ \E t \in Tabs : PeriodicCheck(t)
  \/ \E t \in Tabs : StorageEvent(t)
  \/ \E t \in Tabs : ConflictTimer(t)
  \/ \E t \in Tabs : Logout(t)

\* The session guard on pages whose upload handlers are not running.
GuardInit ==
  /\ UploadInit /\ videoId = NoVideo /\ state.content = 1
  /\ ThumbInit /\ SessionInit /\ draftLog = <<>> /\ AioInit /\ SectionClosed

SpecSession == GuardInit /\ [][NextSession]_vars

(***************************************************************************)
(* Properties of the session guard                                         *)
(***************************************************************************)
\* The step runs validateSession in tab t.
CheckedBy(t) == tab'[t].tick # tab[t].tick

\* All four fields are stored, the user record is the JSON of a user and its
\* id is the stored active user id.
StoredConsistent(st) ==
  /\ st.auth_token # Absent
  /\ st.session_id # Absent
  /\ \E u \in Users : st.user_data = UserJson(u) /\ st.active_user_id = UserId(u)

FoundInvalid(t) ==
  CheckedBy(t) /\ tab[t].page = "dashboard" /\ tab'[t].checked = "invalid"

\* The storage listener of the tab finds a mismatch.
ConflictFound(t) == tab[t].pc # "conflict" /\ tab'[t].pc = "conflict"

\* The guard of the tab forces the logout.
ForcedOut(t) == FoundInvalid(t) \/ (tab[t].pc = "conflict" /\ tab'[t].pc = "idle")

LoginIdentity(t) == IF tab[t].pc = "idle" THEN tab'[t].user ELSE tab[t].loginAs

\* Tab t, on its login page, changes the stored valid session of a
\* different identity.
ReplacesSession(t) ==
  /\ tab[t].page = "login"
  /\ tab'[t] # tab[t]
  /\ storage' # storage
  /\ validateSession(storage)
  /\ ParseUser(storage.user_data).id # LoginIdentity(t)

\* C16 as stated: every login for an identity different from the one of the
\* valid stored session changes the stored session only in a login whose
\* switch dialog the user has confirmed.
C16_Original ==
  [][\A t \in Tabs : ReplacesSession(t) => tab[t].pc \in {"dialog", "switching"}]_vars

\* C16 amended: a login-form attempt for a different identity changes the
\* stored session only after the confirmation of the dialog: submitting the
\* form and Cancel leave all four fields as they were, the confirmation
\* removes them, and the new session is then stored for the new identity
\* with a session id that was never stored before; the only other logins
\* that replace the session of a different identity are those by URL token
\* and by Google callback, which ask nothing and store a session id
\* different from the old one.
C16_SwitchConfirmed ==
  [][\A t \in Tabs :
       /\ (tab[t].pc = "dialog" /\ tab'[t].pc = "idle") => storage' = storage
       /\ (tab[t].pc = "dialog" /\ tab'[t].pc = "switching") => storage' = EmptyStorage
       /\ (tab[t].pc = "switching" /\ tab'[t].pc = "idle") =>
            /\ StoredConsistent(storage')
            /\ storage'.active_user_id = UserId(tab[t].loginAs)
            /\ storage.session_id # Absent => storage.session_id[2] < storage'.session_id[2]
            /\ storage'.session_id[2] >= nextSid
            /\ tab'[t].user = tab[t].loginAs
       /\ ReplacesSession(t) =>
            \/ tab[t].pc \in {"dialog", "switching"}
            \/ /\ tab'[t].via \in {"url", "google"}
               /\ storage'.session_id # storage.session_id
               /\ storage.session_id[2] < nextSid
       /\ (tab[t].page = "login" /\ tab[t].pc = "idle" /\ tab'[t].via = "form"
            /\ tab'[t] # tab[t] /\ validateSession(storage)
            /\ ParseUser(storage.user_data).id # LoginIdentity(t)) =>
            storage' = storage]_vars

C16_Witness ==
  /\ tab["B"].page = "dashboard"
  /\ tab["B"].user = "2"
  /\ tab["B"].via = "form"
  /\ storage.session_id = SessionId(2)
  /\ storage.active_user_id = UserId("2")
  /\ tab["A"].user = "1"

(***************************************************************************)
(* Local draft store: save, load, clear                                    *)
(***************************************************************************)
DraftCall(op, v, partial) == [op |-> op, id |-> v, partial |-> partial]

idleUpload == <<state, videoId, pc, calls, runStart, publishType, outcome, navTimer>>

\* save(videoId, partialDraft)
SaveDraft(v, partial) ==
  /\ Len(draftLog) < MaxDraftOps
  /\ uploadDrafts' = saveUploadDraft(uploadDrafts, v, partial)
  /\ draftLog' = Append(draftLog, DraftCall("save", v, partial))
  /\ UNCHANGED idleUpload
  /\ UNCHANGED outsideDrafts

\* load(videoId): the log keeps what it returned.
LoadDraft(v) ==
  /\ Len(draftLog) < MaxDraftOps
  /\ draftLog' = Append(draftLog, [op |-> "load", id |-> v,
                                   partial |-> loadUploadDraft(uploadDrafts, v).fields,
                                   found |-> loadUploadDraft(uploadDrafts, v).present])
  /\ UNCHANGED uploadDrafts
  /\ UNCHANGED idleUpload
  /\ UNCHANGED outsideDrafts

\* clear(videoId)
ClearDraft(v) ==
  /\ Len(draftLog) < MaxDraftOps
  /\ uploadDrafts' = clearUploadDraft(uploadDrafts, v)
  /\ draftLog' = Append(draftLog, DraftCall("clear", v, NoDraft.fields))
  /\ UNCHANGED idleUpload
  /\ UNCHANGED outsideDrafts

NextDraft ==
  \/ \E v \in VideoIds, partial \in Partials : SaveDraft(v, partial)
  \/ \E v \in VideoIds : LoadDraft(v)
  \/ \E v \in VideoIds : ClearDraft(v)

SpecDraft == HookInit /\ [][NextDraft]_vars

(***************************************************************************)
(* Properties of the draft store                                           *)
(***************************************************************************)
\* The position of the last clear of the draft of v among the first n calls
\* (0: never cleared), and the saves of v after it.
LastClear(v, n) ==
  IF \E j \in 1..n : draftLog[j].op = "clear" /\ draftLog[j].id = v
    THEN CHOOSE j \in 1..n :
           /\ draftLog[j].op = "clear" /\ draftLog[j].id = v
           /\ \A i \in (j + 1)..n : ~(draftLog[i].op = "clear" /\ draftLog[i].id = v)
    ELSE 0

SavesSince(v, n) ==
  {j \in (LastClear(v, n) + 1)..n : draftLog[j].op = "save" /\ draftLog[j].id = v}

\* The saves since the last clear that carry key k.
SavesOf(v, k, n) == {j \in SavesSince(v, n) : draftLog[j].partial[k] # Unset}

\* What load(v) has to return after the first n calls: for each key saved
\* since the last clear the value of its latest save; a key not saved since
\* keeps its persisted value if the draft was never cleared and is unset
\* otherwise; null if the draft was cleared and not saved since.
ExpectedFields(v, n) ==
  [k \in DraftKeys |->
     IF SavesOf(v, k, n) # {}
       THEN draftLog[CHOOSE j \in SavesOf(v, k, n) : \A i \in SavesOf(v, k, n) : i <= j].partial[k]
       ELSE IF LastClear(v, n) = 0 THEN InitialDrafts[v].fields[k] ELSE Unset]

ExpectedFound(v, n) ==
  SavesSince(v, n) # {} \/ (LastClear(v, n) = 0 /\ InitialDrafts[v].present)

\* C17: after every sequence of save, load and clear calls, load(id)
\* returns for each key saved for that id since its last clear the value of
\* the latest save of that key, every load that was made returned that, and
\* after clear(id) with no later save load(id) returns null.
C17_DraftRoundTrip ==
  /\ \A v \in VideoIds :
       /\ loadUploadDraft(uploadDrafts, v).fields = ExpectedFields(v, Len(draftLog))
       /\ loadUploadDraft(uploadDrafts, v).present = ExpectedFound(v, Len(draftLog))
  /\ \A n \in 1..Len(draftLog) :
       draftLog[n].op = "load" =>
         /\ draftLog[n].partial = ExpectedFields(draftLog[n].id, n - 1)
         /\ draftLog[n].found = ExpectedFound(draftLog[n].id, n - 1)
  /\ \A n \in 1..Len(draftLog) :
       (draftLog[n].op = "clear" /\ SavesSince(draftLog[n].id, Len(draftLog)) = {}
        /\ LastClear(draftLog[n].id, Len(draftLog)) = n) =>
         loadUploadDraft(uploadDrafts, draftLog[n].id) = NoDraft

C17_Witness ==
  /\ Len(draftLog) = 3
  /\ draftLog[1].op = "save" /\ draftLog[1].id = "v1"
  /\ draftLog[1].partial["thumbnailUrl"] = 2 /\ draftLog[1].partial["step"] = 2
  /\ draftLog[2].op = "save" /\ draftLog[2].id = "v1"
  /\ draftLog[2].partial["thumbnailUrl"] = 1 /\ draftLog[2].partial["step"] = Unset
  /\ draftLog[3].op = "load" /\ draftLog[3].id = "v1"
  /\ draftLog[3].partial["thumbnailUrl"] = 1 /\ draftLog[3].partial["step"] = 2

(***************************************************************************)
(* All-in-one page: handlers (app/dashboard/all-in-one/page.tsx)           *)
(***************************************************************************)

MaxFiles == 2
MaxSaves == 2
MaxEdits == 1

\* The id the backend gives the n-th uploaded video.
UploadedId(n) == CASE n = 1 -> "v1" [] n = 2 -> "v2" [] OTHER -> "v3"

\* The flags the page reads from useVideos, useAllInOne and useYouTubeUpload.
isUploading == \E r \in DOMAIN aioRun.uploads : aioRun.uploads[r].pc = "uploading"
isSaving == aioRun.save = "saving"
isUploadingToYouTube == aioRun.save = "publishing"

\* {step === "review" && processedData && ...}: the review form is on screen.
ReviewShown == aio.step = "review" /\ aioRun.processedData.present

\* The useEffect on [processedData]: each part overwrites its field only when
\* it succeeded and is not empty.
loadProcessed(form, data) ==
  [ form EXCEPT
      !.selectedTitle = IF data.titles.success /\ Len(data.titles.generated_titles) > 0
                          THEN data.titles.generated_titles[1] ELSE @,
      !.description = IF data.description.success /\ data.description.generated_description # ""
                        THEN data.description.generated_description ELSE @,
      !.timestamps = IF data.timestamps.success
                       THEN data.timestamps.generated_timestamps ELSE @,
      !.selectedThumbnail = IF data.thumbnails.success /\ Len(data.thumbnails.generated_thumbnails) > 0
                              THEN data.thumbnails.generated_thumbnails[1] ELSE @ ]

\* handleFileUpload up to the uploadVideo call; key is the Gemini key check.
handleFileUpload(key) ==
  /\ aio.step = "upload" /\ ~isUploading
  /\ aioRun.files < MaxFiles
  /\ IF ~key
       THEN /\ aioRun' = [aioRun EXCEPT !.toast = "Gemini API Key Required"]
            /\ UNCHANGED aio
       ELSE /\ aio' = [aio EXCEPT !.uploadedFile = "file", !.step = "upload"]
            /\ aioRun' = [aioRun EXCEPT
                 !.files = @ + 1,
                 !.uploads = Append(@, [pc |-> "uploading", video |-> NoVideo,
                                        result |-> "pending"])]
  /\ UNCHANGED outsideAio

\* An uploadVideo whose rejection is not caught: processing starts anyway.
uploadVideoSettled_uncaught(r, result) ==
  /\ r \in DOMAIN aioRun.uploads
  /\ aioRun.uploads[r].pc = "uploading"
  /\ IF result = "noId"
       THEN /\ aioRun' = [aioRun EXCEPT !.uploads[r].pc = "done",
                                         !.uploads[r].result = result]
            /\ UNCHANGED aio
       ELSE /\ aio' = [aio EXCEPT !.currentVideoId = UploadedId(r), !.step = "processing"]
            /\ aioRun' = [aioRun EXCEPT
                 !.uploads[r] = [pc |-> "processing", video |-> UploadedId(r),
                                 result |-> result]]
  /\ UNCHANGED outsideAio

\* uploadVideo settles: with an id, without one, or by throwing.
uploadVideoSettled(r, result) ==
  /\ r \in DOMAIN aioRun.uploads
  /\ aioRun.uploads[r].pc = "uploading"
  /\ CASE result = "id" ->
            /\ aio' = [aio EXCEPT !.currentVideoId = UploadedId(r), !.step = "processing"]
            /\ aioRun' = [aioRun EXCEPT
                 !.uploads[r] = [pc |-> "processing", video |-> UploadedId(r),
                                 result |-> result]]
       [] result = "noId" ->
            /\ aioRun' = [aioRun EXCEPT !.uploads[r].pc = "done",
                                         !.uploads[r].result = result]
            /\ UNCHANGED aio
       [] result = "thrown" ->
            /\ aio' = [aio EXCEPT !.step = "upload"]
            /\ aioRun' = [aioRun EXCEPT !.uploads[r].pc = "done",
                                         !.uploads[r].result = result]
  /\ UNCHANGED outsideAio

\* processAllInOne settles: processedData is stored, the effect loads it into
\* the form and the handler shows the review; or the catch goes back.
processAllInOneSettled(r, ok, data) ==
  /\ r \in DOMAIN aioRun.uploads
  /\ aioRun.uploads[r].pc = "processing"
  /\ IF ok
       THEN /\ aio' = [loadProcessed(aio, data) EXCEPT !.step = "review"]
            /\ aioRun' = [aioRun EXCEPT !.uploads[r].pc = "done", !.processedData = data]
       ELSE /\ aio' = [aio EXCEPT !.step = "upload"]
            /\ aioRun' = [aioRun EXCEPT !.uploads[r].pc = "done"]
  /\ UNCHANGED outsideAio

\* What the controls of the review form can set a field to.
EditChoices(field) ==
  CASE field = "selectedTitle" ->
         { aioRun.processedData.titles.generated_titles[i] :
             i \in DOMAIN aioRun.processedData.titles.generated_titles }
    [] field = "selectedThumbnail" ->
         IF Len(aioRun.processedData.thumbnails.generated_thumbnails) > 0
           THEN { aioRun.processedData.thumbnails.generated_thumbnails[1] }
           ELSE {}
    [] field = "description" -> {"", "d2"}
    [] field = "timestamps" ->
         IF Len(aio.timestamps) > 0 THEN { [aio.timestamps EXCEPT ![1] = "ts2"] } ELSE {}
    [] field = "privacyStatus" -> {"public", "private"}
    [] field = "playlistName" -> {"p1"}

\* An edit of the review form.
EditForm(field) ==
  /\ ReviewShown
  /\ aioRun.edits < MaxEdits
  /\ \E value \in EditChoices(field) :
       /\ aio' = [aio EXCEPT ![field] = value]
       /\ aio' # aio
  /\ aioRun' = [aioRun EXCEPT !.edits = @ + 1]
  /\ UNCHANGED outsideAio

\* The Cancel button of the review form.
Cancel ==
  /\ ReviewShown /\ ~isSaving
  /\ aio' = [aio EXCEPT !.step = "upload", !.uploadedFile = NoFile]
  /\ UNCHANGED <<aioRun, outsideAio>>

\* The body of the save-content request.
savePayload(form) ==
  [ selected_title |-> form.selectedTitle,
    selected_thumbnail_url |-> form.selectedThumbnail,
    description |-> form.description,
    timestamps |-> form.timestamps,
    privacy_status |-> form.privacyStatus,
    playlist_name |-> IF form.playlistName = "" THEN <<>> ELSE <<form.playlistName>> ]

\* handleSave up to the saveAllInOne call.
handleSave ==
  /\ ReviewShown
  /\ ~isSaving /\ ~isUploadingToYouTube
  /\ aio.selectedTitle # "" /\ aio.selectedThumbnail # "" /\ aio.description # ""
  /\ IF aio.currentVideoId = NoVideo
       THEN aioRun' = [aioRun EXCEPT !.toast = "Error"]
       ELSE IF aio.selectedTitle = "" \/ aio.selectedThumbnail = "" \/ aio.description = ""
         THEN aioRun' = [aioRun EXCEPT !.toast = "Missing Fields"]
         ELSE /\ aioRun.saves < MaxSaves
              /\ aioRun' = [aioRun EXCEPT
                   !.save = "saving",
                   !.saves = @ + 1,
                   !.closure = [videoId |-> aio.currentVideoId],
                   !.calls = Append(@, [call |-> "saveAllInOne", videoId |-> aio.currentVideoId,
                                        payload |-> savePayload(aio), status |-> "pending"])]
  /\ UNCHANGED <<aio, outsideAio>>

SettleLast(log, status) == [log EXCEPT ![Len(log)].status = status]

\* What handleSave does when saveAllInOne settles.
afterSave_publishAnyway(run, ok) ==
  [ run EXCEPT
      !.save = "publishing",
      !.toast = IF ok THEN "Uploading to YouTube..." ELSE "Save Failed",
      !.calls = Append(SettleLast(@, IF ok THEN "ok" ELSE "failed"),
                       [call |-> "uploadToYouTube", videoId |-> run.closure.videoId,
                        status |-> "pending"]) ]
afterSave(run, ok) ==
  IF ok
    THEN [ run EXCEPT
             !.save = "publishing",
             !.toast = "Uploading to YouTube...",
             !.calls = Append(SettleLast(@, "ok"),
                              [call |-> "uploadToYouTube", videoId |-> run.closure.videoId,
                               status |-> "pending"]) ]
    ELSE [ run EXCEPT
             !.save = "idle",
             !.toast = "Save Failed",
             !.calls = SettleLast(@, "failed") ]

saveAllInOneSettled(ok) ==
  /\ isSaving
  /\ aioRun' = afterSave(aioRun, ok)
  /\ UNCHANGED <<aio, outsideAio>>

\* errorData?.message?.includes('thumbnail')
includes(message, word) == \E i \in DOMAIN message : message[i] = word

isThumbnailError(errorData) ==
  /\ errorData.present
  /\ \/ errorData.code = "UPLOAD_005"
     \/ errorData.details.present /\ errorData.details.error_type = "thumbnail_upload_failure"
     \/ includes(errorData.message, "thumbnail")

\* The toast of the catch around uploadToYouTube.
publishToast_markerOnly(errorData) ==
  IF isThumbnailError(errorData)
    THEN "Video Uploaded (Thumbnail Warning)"
    ELSE "YouTube Upload Failed"
publishToast(errorData) ==
  IF /\ isThumbnailError(errorData)
     /\ errorData.details.present
     /\ errorData.details.youtube_video_id # ""
    THEN "Video Uploaded (Thumbnail Warning)"
    ELSE "YouTube Upload Failed"

\* uploadToYouTube settles; the reset timer is set whatever the outcome.
uploadToYouTubeSettled(ok, errorData) ==
  /\ isUploadingToYouTube
  /\ aioRun' = [aioRun EXCEPT
       !.save = "idle",
       !.timers = @ + 1,
       !.toast = IF ok THEN "YouTube Upload Successful!" ELSE publishToast(errorData),
       !.calls = IF ok
                   THEN SettleLast(@, "ok")
                   ELSE [@ EXCEPT ![Len(@)] =
                           [call |-> "uploadToYouTube", videoId |-> @.videoId,
                            status |-> "failed", error |-> errorData]]]
  /\ UNCHANGED <<aio, outsideAio>>

\* The setTimeout(..., 2000) callback of handleSave.
resetForm ==
  /\ aioRun.timers > 0
  /\ aio' = initialForm
  /\ aioRun' = [aioRun EXCEPT !.timers = @ - 1]
  /\ UNCHANGED outsideAio

FormFields ==
  {"selectedTitle", "selectedThumbnail", "description", "timestamps", "privacyStatus",
   "playlistName"}

NextAio ==
  \/ \E key \in BOOLEAN : handleFileUpload(key)
  \/ \E r \in 1..MaxFiles, result \in {"id", "noId", "thrown"} : uploadVideoSettled(r, result)
  \/ \E r \in 1..MaxFiles, ok \in BOOLEAN, data \in ProcessResults :
       processAllInOneSettled(r, ok, data)
  \/ \E field \in FormFields : EditForm(field)
  \/ Cancel
  \/ handleSave
  \/ \E ok \in BOOLEAN : saveAllInOneSettled(ok)
  \/ \E ok \in BOOLEAN, errorData \in ErrorData : uploadToYouTubeSettled(ok, errorData)
  \/ resetForm

AioPageInit == Init /\ videoId = NoVideo /\ state.content = 1

SpecAio == AioPageInit /\ [][NextAio]_vars

(***************************************************************************)
(* All-in-one page: properties                                             *)
(***************************************************************************)

LastOf(run) == run.calls[Len(run.calls)]

\* The step in which the publish call of the running handleSave fails.
PublishFails ==
  /\ aioRun.save = "publishing" /\ aioRun'.save = "idle"
  /\ LastOf(aioRun').status = "failed"

\* The thumbnail-failure marker on the error data of a failed publish call.
HasMarker(e) ==
  /\ e.present
  /\ \/ e.code = "UPLOAD_005"
     \/ e.details.present /\ e.details.error_type = "thumbnail_upload_failure"
     \/ \E i \in DOMAIN e.message : e.message[i] = "thumbnail"

HasVideoId(e) == e.present /\ e.details.present /\ e.details.youtube_video_id # ""

\* C18 as stated: every publish failure that carries the thumbnail-failure
\* marker is reported with the thumbnail warning and not as a failed upload.
C18_Original ==
  [][ (PublishFails /\ HasMarker(LastOf(aioRun').error))
        => aioRun'.toast = "Video Uploaded (Thumbnail Warning)" ]_vars

\* C18: a failed publish call is reported with the thumbnail warning exactly
\* when its error data carries the thumbnail-failure marker and also
\* details.youtube_video_id; every other failed publish call, with or without
\* the marker, is reported as "YouTube Upload Failed".
C18_WarningNeedsVideoId ==
  [][ PublishFails =>
        IF HasMarker(LastOf(aioRun').error) /\ HasVideoId(LastOf(aioRun').error)
          THEN aioRun'.toast = "Video Uploaded (Thumbnail Warning)"
          ELSE aioRun'.toast = "YouTube Upload Failed" ]_vars

C18_Witness ==
  /\ aioRun.calls # <<>>
  /\ LastOf(aioRun).call = "uploadToYouTube"
  /\ LastOf(aioRun).status = "failed"
  /\ HasMarker(LastOf(aioRun).error)
  /\ LastOf(aioRun).error.details.present
  /\ LastOf(aioRun).error.details.youtube_video_id = "yt1"
  /\ aioRun.toast = "Video Uploaded (Thumbnail Warning)"

\* The step in which a publish call is issued.
PublishIssued ==
  /\ Len(aioRun'.calls) > Len(aioRun.calls)
  /\ LastOf(aioRun').call = "uploadToYouTube"

\* The step in which the save-content call of the running handleSave fails.
SaveFails == aioRun.save = "saving" /\ aioRun'.save = "idle"

NoPublishYet == \A i \in DOMAIN aioRun.calls : aioRun.calls[i].call # "uploadToYouTube"

\* C19: a publish call is issued only in the step in which the pending
\* save-content call of the same handleSave, for the same video id, resolves
\* successfully.  When the save-content call fails, no call is issued, no reset
\* timer is set and the page state is left as it is; the step is "review"
\* unless a reset timer of an earlier handleSave has gone off meanwhile.
C19_PublishAfterSave ==
  [][ /\ PublishIssued =>
           /\ aioRun.save = "saving"
           /\ LastOf(aioRun).call = "saveAllInOne"
           /\ LastOf(aioRun).status = "pending"
           /\ Len(aioRun'.calls) = Len(aioRun.calls) + 1
           /\ aioRun'.calls[Len(aioRun.calls)] = [LastOf(aioRun) EXCEPT !.status = "ok"]
           /\ LastOf(aioRun').videoId = LastOf(aioRun).videoId
      /\ SaveFails =>
           /\ aioRun'.calls = [aioRun.calls EXCEPT ![Len(aioRun.calls)].status = "failed"]
           /\ aioRun'.timers = aioRun.timers
           /\ aio' = aio
           /\ NoPublishYet => aio'.step = "review" ]_vars

C19_Witness ==
  /\ Len(aioRun.calls) = 3
  /\ aioRun.calls[1].call = "saveAllInOne" /\ aioRun.calls[1].status = "ok"
  /\ aioRun.calls[2].call = "uploadToYouTube"
  /\ aioRun.calls[3].call = "saveAllInOne" /\ aioRun.calls[3].status = "failed"
  /\ aioRun.save = "idle"
  /\ aioRun.toast = "Save Failed"
  /\ aio.step = "review"

\* Every publish call settled so far failed without the thumbnail-failure
\* marker, so every reset timer was set after a full failure.
OnlyFullFailures(run) ==
  \A i \in DOMAIN run.calls :
    (run.calls[i].call = "uploadToYouTube" /\ run.calls[i].status # "pending")
      => (run.calls[i].status = "failed" /\ ~HasMarker(run.calls[i].error))

UserInput(form) ==
  <<form.selectedTitle, form.selectedThumbnail, form.description, form.timestamps,
    form.privacyStatus, form.playlistName>>

\* C20 as stated: when the publish call fails without the thumbnail-failure
\* marker, neither the failure handling nor a timer it sets changes the user
\* input, currentVideoId or the step.
C20_Original ==
  [][ (OnlyFullFailures(aioRun') /\ (PublishFails \/ aioRun'.timers < aioRun.timers))
        => /\ UserInput(aio') = UserInput(aio)
           /\ aio'.currentVideoId = aio.currentVideoId
           /\ aio'.step = aio.step ]_vars

\* The review form is shown for a process result without thumbnails.
ReviewWithoutThumbnails ==
  /\ ReviewShown
  /\ Len(aioRun.processedData.thumbnails.generated_thumbnails) = 0

\* C21 as stated: whenever the review step shows a process result that
\* contains no thumbnail, selectedThumbnail is empty.
C21_Original == ReviewWithoutThumbnails => aio.selectedThumbnail = ""

(***************************************************************************)
(* useThumbnail: isLoading and the outstanding requests                    *)
(***************************************************************************)

\* A generation request of the running batch has not settled yet.
BatchOutstanding == batch = "running" /\ \E i \in Indices : req[i] = "pending"

\* Some request of the hook is outstanding.
RequestOutstanding == BatchOutstanding \/ ops.save \/ ops.upload

\* C26 as stated: isLoading is not true when no request of the hook is
\* outstanding, so every operation that set it has set it back once its
\* requests settled.
C26_Original == ~RequestOutstanding => ~thumb.isLoading

\* C27 as stated: while a generation request of the batch is outstanding,
\* isLoading is true, whatever other operation of the hook runs meanwhile.
C27_Original == BatchOutstanding => thumb.isLoading

\* The last call of the hook was clearThumbnails, and this step is not a new
\* call: a request dispatched earlier settles.
SettlesAfterClear ==
  /\ ops.last.op = "clearThumbnails"
  /\ ops'.batches = ops.batches
  /\ ops'.last.op \in {"clearThumbnails", "saveSettled", "uploadSettled"}
  /\ ops'.started = ops.started

\* C29 as stated: clearThumbnails leaves the initial state, and until the
\* next generateThumbnails or uploadCustomThumbnail call no settling request
\* puts a thumbnail back.
C29_Original ==
  [][ /\ (ops'.last.op = "clearThumbnails" /\ ops'.started # ops.started)
           => thumb' = initialThumbnailState
      /\ SettlesAfterClear => thumb'.generatedThumbnails = <<>> ]_vars

(***************************************************************************)
(* ThumbnailSection: handlers                                              *)
(***************************************************************************)

\* state.content.thumbnails[0] || generatedThumbnails[0]
FirstOf(arr) == IF Len(arr) > 0 THEN arr[1] ELSE NoThumbnail
ShownThumbnail ==
  IF FirstOf(section.thumbnails) # NoThumbnail
    THEN FirstOf(section.thumbnails)
    ELSE IF FirstOf(thumb.generatedThumbnails) # Hole
      THEN FirstOf(thumb.generatedThumbnails)
      ELSE NoThumbnail

\* The Generate and Regenerate buttons: handlers.generateThumbnails runs the
\* hook's generateThumbnails for the current video.
SectionGenerate ==
  /\ section.currentStep = "thumbnail"
  /\ ~thumb.isLoading
  /\ IF videoId = NoVideo THEN GenerateMissingVideoId ELSE generateThumbnails

\* A generation request of the batch settles while the section is shown.
SectionRequestSettles(index, result) ==
  /\ section.currentStep = "thumbnail"
  /\ generateWithDelay(index, result)

\* handleThumbnailSelect on the thumbnail shown: the selection is stored
\* first; with a video id the hook's saveThumbnail is awaited.
handleThumbnailSelect ==
  /\ section.currentStep = "thumbnail"
  /\ ~thumb.isLoading
  /\ ShownThumbnail # NoThumbnail
  /\ ~ops.save
  /\ ops.started < MaxHookOps
  /\ IF videoId # NoVideo
       THEN /\ section' = [section EXCEPT !.selectedThumbnail = ShownThumbnail,
                                          !.isSaving = TRUE,
                                          !.savingUrl = ShownThumbnail]
            /\ thumb' = INIT_SINGLE(thumb)
            /\ ops' = [ops EXCEPT !.save = TRUE,
                                  !.started = @ + 1,
                                  !.last = Event("saveThumbnail", <<videoId, ShownThumbnail>>,
                                                 "pending")]
       ELSE /\ section' = [section EXCEPT !.selectedThumbnail = ShownThumbnail]
            /\ ops' = [ops EXCEPT !.started = @ + 1]
            /\ UNCHANGED thumb
  /\ UNCHANGED <<req, batch, returned>>
  /\ UNCHANGED outsideSection

\* The awaited saveThumbnail settles: the catch swallows a rejection and the
\* finally block clears isSaving.
SelectSaveSettled(ok) ==
  /\ section.isSaving /\ ops.save
  /\ section' = [section EXCEPT !.isSaving = FALSE,
                                !.savingUrl = NoThumbnail,
                                !.lastSave = [url |-> section.savingUrl, ok |-> ok]]
  /\ ops' = [ops EXCEPT !.save = FALSE,
                        !.last = Event("saveSettled", <<>>, IF ok THEN "response" ELSE "thrown")]
  /\ thumb' = IF ok THEN thumb ELSE ERROR(thumb, "Failed to save thumbnail")
  /\ UNCHANGED <<req, batch, returned>>
  /\ UNCHANGED outsideSection

\* handleCustomThumbnailUpload: the object URL of the chosen file is selected;
\* nothing is sent.
handleCustomThumbnailUpload ==
  /\ section.currentStep = "thumbnail"
  /\ section.selectedThumbnail # ObjectUrl
  /\ section' = [section EXCEPT !.selectedThumbnail = ObjectUrl]
  /\ UNCHANGED <<thumbVars, outsideSection>>

\* handleSaveAndNext: updateState({ currentStep: "preview" }).
handleSaveAndNext(sec) == [sec EXCEPT !.currentStep = "preview"]

\* The "Save & Next: Preview" button, shown once a thumbnail is selected and
\* disabled while isSaving.
SaveAndNext ==
  /\ section.currentStep = "thumbnail"
  /\ section.selectedThumbnail # NoThumbnail
  /\ ~section.isSaving
  /\ section' = handleSaveAndNext(section)
  /\ UNCHANGED <<thumbVars, outsideSection>>

NextSection ==
  \/ SectionGenerate
  \/ \E index \in Indices, result \in Results : SectionRequestSettles(index, result)
  \/ handleThumbnailSelect
  \/ \E ok \in BOOLEAN : SelectSaveSettled(ok)
  \/ handleCustomThumbnailUpload
  \/ SaveAndNext

\* The section is shown for a video or without one, with or without a
\* thumbnail already in the UploadState, before the first batch or after one
\* that produced one or two thumbnails.
SectionInit ==
  /\ UploadInit /\ state.content = 1
  /\ videoId \in {NoVideo, "v1"}
  /\ SessionClosed /\ draftLog = <<>> /\ AioInit
  /\ section \in { initialSection(<<>>), initialSection(<<StoredUrl>>) }
  /\ ops = [save |-> FALSE, upload |-> FALSE, captured |-> <<>>, started |-> 0, batches |-> 0,
            last |-> Event("none", <<>>, "none")]
  /\ \/ ThumbInit
     \/ \E n \in 1..2 :
          /\ req = [i \in Indices |-> IF i < n THEN "url" ELSE "rejected"]
          /\ thumb = AfterAllSettled(initialThumbnailState, req).thumb
          /\ batch = AfterAllSettled(initialThumbnailState, req).batch
          /\ returned = AfterAllSettled(initialThumbnailState, req).returned

SpecSection == SectionInit /\ [][NextSection]_vars

(***************************************************************************)
(* ThumbnailSection: properties                                            *)
(***************************************************************************)

\* C22 as stated: currentStep goes from "thumbnail" to "preview" only when
\* the last saveThumbnail call was made for the thumbnail now selected and
\* succeeded.
C22_Original ==
  [][ (section.currentStep = "thumbnail" /\ section'.currentStep = "preview")
        => section.lastSave = [url |-> section.selectedThumbnail, ok |-> TRUE] ]_vars

Elements(arr) == { arr[i] : i \in DOMAIN arr }

\* C23 as stated: selectedThumbnail is null, one of the thumbnails of the
\* section (content.thumbnails or the generated thumbnails it shows in their
\* place), or the object URL of a custom upload.
C23_Original ==
  \/ section.selectedThumbnail = NoThumbnail
  \/ section.selectedThumbnail \in Elements(section.thumbnails)
  \/ section.selectedThumbnail \in Elements(thumb.generatedThumbnails)
  \/ section.selectedThumbnail = ObjectUrl

(***************************************************************************)
(* All-in-one page: handleFileUpload properties                            *)
(***************************************************************************)

\* The step in which the uploadVideo call of run r settles.
UploadSettles(r) ==
  /\ r \in DOMAIN aioRun.uploads
  /\ aioRun.uploads[r].pc = "uploading"
  /\ aioRun'.uploads[r].pc # "uploading"

\* C24: when the uploadVideo call of a handleFileUpload run settles, either
\* it returned an id, which is stored as currentVideoId in the step that
\* starts the processing, or the run ends there: no id is stored,
\* currentVideoId is left as it was, the step is not moved to "processing" or
\* "review" (it is "upload" after a rejection, and unchanged, which is
\* "upload" unless a reset timer of an earlier handleSave has interfered,
\* when no id came back), and the run never starts processing later.
C24_UploadSettled ==
  [][ \A r \in 1..MaxFiles :
        /\ UploadSettles(r) =>
             IF aioRun'.uploads[r].result = "id"
               THEN /\ aioRun'.uploads[r].pc = "processing"
                    /\ aioRun'.uploads[r].video # NoVideo
                    /\ aio'.currentVideoId = aioRun'.uploads[r].video
                    /\ aio'.step = "processing"
               ELSE /\ aioRun'.uploads[r].pc = "done"
                    /\ aioRun'.uploads[r].video = NoVideo
                    /\ aio'.currentVideoId = aio.currentVideoId
                    /\ aio'.currentVideoId # UploadedId(r)
                    /\ aio'.step = "upload" \/ aio' = aio
                    /\ aioRun'.uploads[r].result = "thrown" => aio'.step = "upload"
                    /\ NoPublishYet => aio'.step = "upload"
        /\ (r \in DOMAIN aioRun.uploads /\ aioRun.uploads[r].pc = "done")
             => aioRun'.uploads[r] = aioRun.uploads[r] ]_vars

C24_Witness ==
  /\ Len(aioRun.uploads) = 2
  /\ aioRun.uploads[1] = [pc |-> "done", video |-> NoVideo, result |-> "thrown"]
  /\ aioRun.uploads[2] = [pc |-> "processing", video |-> "v2", result |-> "id"]
  /\ aio.currentVideoId = "v2"
  /\ aio.step = "processing"

(***************************************************************************)
(* All-in-one page: duplicate submission and the reset timer               *)
(***************************************************************************)

\* A publish call for video v has succeeded.
Published(run, v) ==
  \E i \in DOMAIN run.calls :
    /\ run.calls[i].call = "uploadToYouTube"
    /\ run.calls[i].status = "ok"
    /\ run.calls[i].videoId = v

\* C25 as stated: no save-content or publish call is issued for a video id
\* whose publish call has succeeded, and no handleSave run starts while a
\* call of an earlier run is in flight.
C25_Original ==
  [][ /\ Len(aioRun'.calls) > Len(aioRun.calls)
           => ~Published(aioRun, LastOf(aioRun').videoId)
      /\ aioRun'.saves > aioRun.saves => aioRun.save = "idle" ]_vars

\* Run r of handleFileUpload shows the review in this step.
ShowsReview(r) ==
  /\ r \in DOMAIN aioRun.uploads
  /\ aioRun.uploads[r].pc = "processing"
  /\ aioRun'.uploads[r].pc = "done"
  /\ aio'.step = "review"

\* C28 as stated: whenever the step is "review", currentVideoId is non-null
\* and is the id of the video whose processing produced the review: it is
\* that id when the review is shown and it stays so while the review lasts.
C28_Original ==
  /\ [](aio.step = "review" => aio.currentVideoId # NoVideo)
  /\ [][ /\ \A r \in 1..MaxFiles :
              ShowsReview(r) => aio'.currentVideoId = aioRun.uploads[r].video
         /\ (aio.step = "review" /\ aio'.step = "review")
              => aio'.currentVideoId = aio.currentVideoId ]_vars

(***************************************************************************)
(* Session guard: the forced logout and the other tab                      *)
(***************************************************************************)

\* Tab b is on the dashboard and the stored session is valid and its own.
OwnsSession(tb, st, b) ==
  /\ tb[b].page = "dashboard"
  /\ validateSession(st)
  /\ st.active_user_id = UserId(tb[b].user)

\* The 1.5 s wait of tab a ends in its forced logout.
ForcedLogout(a) == tab[a].pc = "conflict" /\ tab'[a].page = "login"

\* C30 as stated: the forced logout of the tab that detected the conflict
\* does not invalidate the session the other tab has stored: that session
\* still validates for the other tab after the logout.
C30_Original ==
  [][\A a, b \in Tabs :
       (a # b /\ ForcedLogout(a) /\ OwnsSession(tab, storage, b))
          => OwnsSession(tab', storage', b)]_vars

====
